---- MODULE Spec2Model ----
(***************************************************************************)
(* Model of calibrate_extrinsics.py: the loader (load_calibration_data),   *)
(* the pose solver (calculate_extrinsics) and the batch orchestrator       *)
(* (main).  One run of main() is a sequential walk                         *)
(*   start -> load_loop -> check -> solve -> dump -> done                  *)
(* with "crashed" as the state main() is left in when an exception that no *)
(* handler catches propagates out of it.  The camera ids of the intrinsics *)
(* document are 1..MaxCams in ascending order; the observations document   *)
(* lists its cameras in any order.                                         *)
(***************************************************************************)
EXTENDS Integers, Sequences, FiniteSets

\* ---------------------------------------------------------------- bounds
MaxCams == 2
MaxPoints == 4

CamIds == 1..MaxCams
\* Point counts an input array can have: one below and at MaxPoints, so that
\* equal and unequal 3D/2D counts both occur.
PointCounts == (MaxPoints - 1)..MaxPoints

\* ------------------------------------------------------- program constants
\* The message of the RuntimeError raised at line 91.
ConvergeMsg == "cv2.solvePnP failed to converge."
\* str(e) of an exception raised inside cv2.solvePnP / cv2.Rodrigues itself.
Cv2ErrorMsg == "OpenCV error"

\* ------------------------------------------------ ordered dictionaries
\* A Python dict is a sequence of [key, value] records with distinct keys,
\* in insertion order.
DictKeys(d) == [i \in 1..Len(d) |-> d[i].key]

DictHas(d, k) == \E i \in 1..Len(d) : d[i].key = k

DictGet(d, k) == (CHOOSE i \in 1..Len(d) : d[i].key = k)

\* A dictionary kept in ascending key order, as sort_keys would give.
DictSetSorted(d, k, v) ==
    SelectSeq(d, LAMBDA e : e.key < k)
    \o << [key |-> k, value |-> v] >>
    \o SelectSeq(d, LAMBDA e : e.key > k)

\* d[k] = v : an existing key keeps its position, a new key goes last.
DictSet(d, k, v) ==
    IF DictHas(d, k)
    THEN [i \in 1..Len(d) |-> IF d[i].key = k THEN [key |-> k, value |-> v] ELSE d[i]]
    ELSE Append(d, [key |-> k, value |-> v])

\* del d[k]
DictDel(d, k) == SelectSeq(d, LAMBDA e : e.key # k)

\* ------------------------------------------------------------ input sets
\* An intrinsics entry: a JSON object with the fields K and distortion, one of
\* which may be missing.
IntrEntries ==
    { [K |-> "K", distortion |-> "dist"], [K |-> "K"], [distortion |-> "dist"] }

\* An observations entry: a JSON object whose fields points_3d / points_2d are
\* given by their number of points; one of the fields may be missing.
ObsEntries ==
    [points_3d : PointCounts, points_2d : PointCounts]
    \cup { [points_3d |-> MaxPoints], [points_2d |-> MaxPoints] }

\* The parsed intrinsics document: camera id -> entry, for some of the ids.
IntrDocs == UNION { [S -> IntrEntries] : S \in SUBSET CamIds }

\* Key orders of the `cameras` object: sequences of distinct camera ids.
KeyOrders ==
    { s \in UNION { [1..n -> CamIds] : n \in 0..MaxCams } :
        \A i, j \in 1..Len(s) : i # j => s[i] # s[j] }

\* The `cameras` object of the observations document, in key order.
ObsCameras ==
    UNION { { [i \in 1..Len(s) |-> [key |-> s[i], value |-> e[i]]] :
                e \in [1..Len(s) -> ObsEntries] } : s \in KeyOrders }

FileStates == {"absent", "malformed", "ok"}

\* -------------------------------------------------------------- state
VARIABLES
    pc,                 \* position of main()
    intrinsics_file,    \* intrinsics.json: absent, malformed or ok
    observations_file,  \* observations.json: absent, malformed or ok
    intrinsics_data,    \* parsed intrinsics document
    has_cameras,        \* the observations document has a `cameras` key
    obs_cameras,        \* observations_data['cameras'], in key order
    idx,                \* position of the running for loop
    structured_data,    \* the loader's mapping / all_camera_data
    results,            \* results["cameras"]
    output_file,        \* extrinsics_result.json
    load_calls,         \* number of calls of load_calibration_data
    solved,             \* the calls of calculate_extrinsics, in call order: the camera,
                        \* what cv2.solvePnP did (o) and what the call returned or raised (r)
    writes              \* number of json.dump calls on the output file

vars == << pc, intrinsics_file, observations_file, intrinsics_data, has_cameras,
           obs_cameras, idx, structured_data, results, output_file, load_calls,
           solved, writes >>

inputs == << intrinsics_file, observations_file, intrinsics_data, has_cameras,
             obs_cameras >>

\* The output file as a previous run may have left it.
OldFile == [state |-> "old", cameras |-> << >>]
NoFile == [state |-> "absent", cameras |-> << >>]

Init ==
    /\ pc = "start"
    /\ intrinsics_file \in FileStates
    /\ observations_file \in FileStates
    /\ intrinsics_data \in IntrDocs
    /\ intrinsics_file # "ok" => intrinsics_data = << >>
    /\ has_cameras \in BOOLEAN
    /\ obs_cameras \in ObsCameras
    /\ (observations_file # "ok" \/ ~has_cameras) => obs_cameras = << >>
    /\ observations_file # "ok" => ~has_cameras
    /\ idx = 1
    /\ structured_data = << >>
    /\ results = << >>
    /\ output_file \in {NoFile, OldFile}
    /\ load_calls = 0
    /\ solved = << >>
    /\ writes = 0

\* ------------------------------------------------------------- loader
\* Lines 19-30: both files are opened and parsed; a missing file or a JSON
\* decode error makes the loader return {}.
FilesReadable(f_int, f_obs) == f_int = "ok" /\ f_obs = "ok"

\* A loader that handles FileNotFoundError only: a JSON decode error propagates.
AfterOpenMissingOnly(f_int, f_obs) ==
    IF FilesReadable(f_int, f_obs) THEN "load_loop"
    ELSE IF f_int = "malformed" \/ (f_int = "ok" /\ f_obs = "malformed") THEN "crashed"
    ELSE "check"

\* Where the loader goes after the try block: both except clauses return {}.
AfterOpen(f_int, f_obs) ==
    IF FilesReadable(f_int, f_obs) THEN "load_loop" ELSE "check"

LoadFiles ==
    /\ pc = "start"
    /\ load_calls' = load_calls + 1
    /\ structured_data' = << >>
    /\ idx' = 1
    /\ pc' = AfterOpen(intrinsics_file, observations_file)
    /\ UNCHANGED << inputs, results, output_file, solved, writes >>

\* Lines 44-57: the dict literal reads int_data['K'], int_data['distortion'],
\* obs_data['points_3d'], obs_data['points_2d']; a missing field raises KeyError.
EntryComplete(int_data, obs_data) ==
    /\ "K" \in DOMAIN int_data
    /\ "distortion" \in DOMAIN int_data
    /\ "points_3d" \in DOMAIN obs_data
    /\ "points_2d" \in DOMAIN obs_data

BuildEntry(int_data, obs_data) ==
    [K |-> int_data.K, dist |-> int_data.distortion,
     points_3d |-> obs_data.points_3d, points_2d |-> obs_data.points_2d]

\* A loader without the validation check.
CountMismatchNever(entry) == FALSE

\* Line 60: the validation check.
CountMismatch(entry) == entry.points_3d # entry.points_2d

\* Lines 37-62: one iteration of the loader's for loop.
LoadCamera ==
    /\ pc = "load_loop"
    /\ idx <= Len(obs_cameras)
    /\ LET cam_id == obs_cameras[idx].key
           obs_data == obs_cameras[idx].value
       IN  IF cam_id \notin DOMAIN intrinsics_data
           THEN /\ structured_data' = structured_data
                /\ idx' = idx + 1
                /\ pc' = pc
           ELSE IF ~EntryComplete(intrinsics_data[cam_id], obs_data)
           THEN /\ structured_data' = structured_data
                /\ idx' = idx
                /\ pc' = "crashed"
           ELSE LET built == DictSet(structured_data, cam_id,
                                     BuildEntry(intrinsics_data[cam_id], obs_data))
                IN  /\ structured_data' =
                          IF CountMismatch(built[DictGet(built, cam_id)].value)
                          THEN DictDel(built, cam_id)
                          ELSE built
                    /\ idx' = idx + 1
                    /\ pc' = pc
    /\ UNCHANGED << inputs, results, output_file, load_calls, solved, writes >>

\* Line 64: return structured_data.
LoadReturn ==
    /\ pc = "load_loop"
    /\ idx > Len(obs_cameras)
    /\ pc' = "check"
    /\ idx' = 1
    /\ UNCHANGED << inputs, structured_data, results, output_file, load_calls,
                    solved, writes >>

\* -------------------------------------------------------- pose solver
\* Rotation vectors are in quarter turns about a coordinate axis, so that the
\* rotation matrices are integer matrices.
RVecs == { <<0, 0, 0>>, <<0, 0, 1>> }
TVecs == { <<0, 0, 5>>, <<1, 2, 3>> }

Identity(n) == [i \in 1..n |-> [j \in 1..n |-> IF i = j THEN 1 ELSE 0]]

Skew(v) == << <<0, -v[3], v[2]>>, <<v[3], 0, -v[1]>>, <<-v[2], v[1], 0>> >>

MatAdd(A, B) == [i \in 1..3 |-> [j \in 1..3 |-> A[i][j] + B[i][j]]]

MatMul(A, B) ==
    [i \in 1..3 |-> [j \in 1..3 |->
        A[i][1] * B[1][j] + A[i][2] * B[2][j] + A[i][3] * B[3][j]]]

\* cv2.Rodrigues: R = I + sin(theta) K + (1 - cos(theta)) K^2; theta is 0 or a
\* quarter turn here, so sin(theta) = 1 - cos(theta) = 1 for a non-zero rvec.
Rodrigues(rvec) ==
    IF rvec = <<0, 0, 0>>
    THEN Identity(3)
    ELSE MatAdd(MatAdd(Identity(3), Skew(rvec)), MatMul(Skew(rvec), Skew(rvec)))

\* What cv2.solvePnP can do: raise, report failure, or report success with a
\* rotation vector and a translation vector.
SolvePnPOutcomes ==
    [raised : {TRUE}, success : {FALSE}, rvec : {<<0, 0, 0>>}, tvec : {<<0, 0, 5>>}]
    \cup [raised : {FALSE}, success : {FALSE}, rvec : {<<0, 0, 0>>}, tvec : {<<0, 0, 5>>}]
    \cup [raised : {FALSE}, success : {TRUE}, rvec : RVecs, tvec : TVecs]

\* The rotation block written transposed.
SetRotationBlockTransposed(T, R) ==
    [i \in 1..4 |-> [j \in 1..4 |-> IF i <= 3 /\ j <= 3 THEN R[j][i] ELSE T[i][j]]]

\* Lines 98-100: T_matrix = identity(4); T_matrix[:3, :3] = R; T_matrix[:3, 3] = t.
SetRotationBlock(T, R) ==
    [i \in 1..4 |-> [j \in 1..4 |-> IF i <= 3 /\ j <= 3 THEN R[i][j] ELSE T[i][j]]]

SetTranslationColumn(T, t) ==
    [i \in 1..4 |-> [j \in 1..4 |-> IF i <= 3 /\ j = 4 THEN t[i] ELSE T[i][j]]]

T_matrix(R_matrix, tvec) ==
    SetTranslationColumn(SetRotationBlock(Identity(4), R_matrix), tvec)

\* A solver that does not look at the success flag of cv2.solvePnP.
calculate_extrinsics_unchecked(camera_data, o) ==
    IF o.raised
    THEN [ok |-> FALSE, msg |-> Cv2ErrorMsg]
    ELSE [ok |-> TRUE,
          value |-> [rotation_matrix_R |-> Rodrigues(o.rvec),
                     translation_vector_t |-> o.tvec,
                     T_homogeneous_matrix_4x4 |-> T_matrix(Rodrigues(o.rvec), o.tvec),
                     R_Rodrigues_vector |-> o.rvec]]

\* Lines 69-108: the result of one call, given what cv2.solvePnP did: either the
\* returned dict or the exception raised.
calculate_extrinsics(camera_data, o) ==
    IF o.raised
    THEN [ok |-> FALSE, msg |-> Cv2ErrorMsg]
    ELSE IF ~o.success
    THEN [ok |-> FALSE, msg |-> ConvergeMsg]
    ELSE LET R_matrix == Rodrigues(o.rvec)
         IN  [ok |-> TRUE,
              value |-> [rotation_matrix_R |-> R_matrix,
                         translation_vector_t |-> o.tvec,
                         T_homogeneous_matrix_4x4 |-> T_matrix(R_matrix, o.tvec),
                         R_Rodrigues_vector |-> o.rvec]]

\* -------------------------------------------------------------- main
\* A main without the early exit.
NothingLoadedNever(all_camera_data) == FALSE

\* Line 121: `if not all_camera_data`.
NothingLoaded(all_camera_data) == all_camera_data = << >>

\* Lines 121-125: exit when nothing was loaded, else start the result mapping.
CheckLoaded ==
    /\ pc = "check"
    /\ pc' = IF NothingLoaded(structured_data) THEN "done" ELSE "solve"
    /\ results' = << >>
    /\ idx' = 1
    /\ UNCHANGED << inputs, structured_data, output_file, load_calls, solved, writes >>

\* An except clause that logs the failure and stores nothing.
StoreResultDropFailure(res, cam_id, r) ==
    IF r.ok THEN DictSet(res, cam_id, r.value) ELSE res

\* Lines 132 and 136: what the try / except stores under cam_id.
StoreResult(res, cam_id, r) ==
    DictSet(res, cam_id, IF r.ok THEN r.value ELSE [error |-> r.msg])

\* A loop that calls the solver again for a camera whose solve raised.
NextCameraRetry(i, r) == IF r.ok THEN i + 1 ELSE i

\* Line 128: the for loop goes on to the next camera after either branch.
NextCamera(i, r) == i + 1

\* Lines 128-136: one iteration of main's for loop.
ProcessCamera ==
    /\ pc = "solve"
    /\ idx <= Len(structured_data)
    /\ \E o \in SolvePnPOutcomes :
         LET cam_id == structured_data[idx].key
             r == calculate_extrinsics(structured_data[idx].value, o)
         IN  /\ solved' = Append(solved, [cam_id |-> cam_id, o |-> o, r |-> r])
             /\ results' = StoreResult(results, cam_id, r)
             /\ idx' = NextCamera(idx, r)
    /\ UNCHANGED << inputs, pc, structured_data, output_file, load_calls, writes >>

\* The write step indented into the loop body: it runs after the first camera.
LoopFinishedEarly(i, all_camera_data) == i > 1

\* The for loop of line 128 is exhausted.
LoopFinished(i, all_camera_data) == i > Len(all_camera_data)

\* Line 139: open(OUTPUT_FILE, 'w') creates or truncates the file.
OpenOutput ==
    /\ pc = "solve"
    /\ LoopFinished(idx, structured_data)
    /\ output_file' = [state |-> "empty", cameras |-> << >>]
    /\ pc' = "dump"
    /\ UNCHANGED << inputs, idx, structured_data, results, load_calls, solved, writes >>

\* Line 141: json.dump(results, f, indent=4), and the file is closed.
DumpResults ==
    /\ pc = "dump"
    /\ output_file' = [state |-> "doc", cameras |-> results]
    /\ writes' = writes + 1
    /\ pc' = "done"
    /\ UNCHANGED << inputs, idx, structured_data, results, load_calls, solved >>

Next ==
    \/ LoadFiles
    \/ LoadCamera
    \/ LoadReturn
    \/ CheckLoaded
    \/ ProcessCamera
    \/ OpenOutput
    \/ DumpResults

Spec == Init /\ [][Next]_vars

\* ===================================================================
\* Properties
\* ===================================================================
PoseKeys ==
    {"rotation_matrix_R", "translation_vector_t", "T_homogeneous_matrix_4x4",
     "R_Rodrigues_vector"}

KeySet(d) == { d[i].key : i \in 1..Len(d) }

\* main() has written the output document.
Written == pc = "done" /\ output_file.state = "doc"

\* The camera is a key of both parsed documents.
InBothDocuments(c) == c \in KeySet(obs_cameras) /\ c \in DOMAIN intrinsics_data

\* The camera's observation entry has both point arrays, of equal length.
SameCount(c) ==
    \E i \in 1..Len(obs_cameras) :
        /\ obs_cameras[i].key = c
        /\ DOMAIN obs_cameras[i].value = {"points_3d", "points_2d"}
        /\ obs_cameras[i].value.points_3d = obs_cameras[i].value.points_2d

ConsistentCamera(c) == InBothDocuments(c) /\ SameCount(c)

\* The observations' key order with the dropped cameras removed.
ExpectedOrder == SelectSeq(DictKeys(obs_cameras), ConsistentCamera)

IsPrefix(s, t) == Len(s) <= Len(t) /\ \A i \in 1..Len(s) : s[i] = t[i]

\* The entry main() must hold for the i-th call of the solver.
EntryOfCall(i) ==
    IF solved[i].r.ok THEN solved[i].r.value ELSE [error |-> solved[i].r.msg]

\* ------------------------------------------------------------------ C1
\* C1: whenever main() has written the output file, a camera id is a key of
\* the output's `cameras` object iff it is a key of the observations'
\* `cameras` object, is a key of the intrinsics document and has as many 3D as
\* 2D points; a camera failing one of these has no entry at all.
C1_OutputKeysIffConsistent ==
    Written =>
        \A c \in CamIds :
            c \in KeySet(output_file.cameras)
                <=> ( /\ c \in KeySet(obs_cameras)
                      /\ c \in DOMAIN intrinsics_data
                      /\ SameCount(c) )

\* A written output holding one camera while another camera, known to both
\* documents, was dropped for its unequal point counts.
C1_Witness ==
    /\ Written
    /\ Len(output_file.cameras) = 1
    /\ \E c \in CamIds :
         /\ InBothDocuments(c)
         /\ ~SameCount(c)
         /\ c \notin KeySet(output_file.cameras)

\* ------------------------------------------------------------------ C2
\* C2: whatever subset of the loaded cameras the solver raises on, the i-th
\* entry of the result mapping always is the entry of the i-th solver call (the
\* returned pose, or an object with the single key `error`), so a later failure
\* removes or changes no earlier entry; and the written output holds exactly
\* one such entry per loaded camera.
C2_PartialFailureKeepsEntries ==
    /\ pc \in {"solve", "dump"} \/ Written =>
         /\ Len(results) = Len(solved)
         /\ \A i \in 1..Len(solved) :
              /\ results[i].key = solved[i].cam_id
              /\ results[i].value = EntryOfCall(i)
              /\ solved[i].r.ok => DOMAIN results[i].value = PoseKeys
              /\ ~solved[i].r.ok => DOMAIN results[i].value = {"error"}
    /\ Written =>
         /\ output_file.cameras = results
         /\ Len(output_file.cameras) = Len(structured_data)
         /\ KeySet(output_file.cameras) = KeySet(structured_data)

\* A written output of two cameras: the first camera's solve raised, the
\* second camera's solve succeeded after it.
C2_Witness ==
    /\ Written
    /\ Len(solved) = 2
    /\ ~solved[1].r.ok
    /\ solved[2].r.ok
    /\ DOMAIN output_file.cameras[1].value = {"error"}
    /\ DOMAIN output_file.cameras[2].value = PoseKeys

C4_ConsistentCameraIsWritten ==
    (\E c \in CamIds : ConsistentCamera(c)) =>
        /\ pc # "crashed"
        /\ pc = "done" => Written

\* ------------------------------------------------------------------ C5
\* C5: in every pose the solver returned, the bottom row of
\* T_homogeneous_matrix_4x4 is [0,0,0,1], its top-left 3x3 block equals
\* rotation_matrix_R and its top-right column equals translation_vector_t.
C5_HomogeneousMatrixAgrees ==
    \A n \in 1..Len(results) :
        LET e == results[n].value
        IN  DOMAIN e = PoseKeys =>
              /\ e.T_homogeneous_matrix_4x4[4] = <<0, 0, 0, 1>>
              /\ \A i, j \in 1..3 :
                   e.T_homogeneous_matrix_4x4[i][j] = e.rotation_matrix_R[i][j]
              /\ \A i \in 1..3 :
                   e.T_homogeneous_matrix_4x4[i][4] = e.translation_vector_t[i]

\* A pose with a quarter turn about the z axis and the translation (1,2,3).
C5_Witness ==
    \E n \in 1..Len(results) :
        /\ DOMAIN results[n].value = PoseKeys
        /\ results[n].value.rotation_matrix_R = << <<0, -1, 0>>, <<1, 0, 0>>, <<0, 0, 1>> >>
        /\ results[n].value.translation_vector_t = <<1, 2, 3>>
        /\ results[n].value.T_homogeneous_matrix_4x4[1] = <<0, -1, 0, 1>>

\* ------------------------------------------------------------------ C6
\* C6 as stated: when cv2.solvePnP reports failure for a camera, the solver
\* fails with the message "PnP failed to converge" and main() stores exactly
\* that message as the camera's `error` string.
C6_MessageAsStated ==
    \A i \in 1..Len(solved) :
        (~solved[i].o.raised /\ ~solved[i].o.success) =>
            /\ ~solved[i].r.ok
            /\ solved[i].r.msg = "PnP failed to converge"
            /\ i <= Len(results) => results[i].value = [error |-> "PnP failed to converge"]

\* C6 amended: when cv2.solvePnP reports failure for a camera, the solver
\* raises with the message "cv2.solvePnP failed to converge.", main() stores
\* exactly that message as the `error` string of that camera's entry, and the
\* run still reaches every other loaded camera before it writes.
C6_ConvergenceMessageStored ==
    /\ \A i \in 1..Len(solved) :
         (~solved[i].o.raised /\ ~solved[i].o.success) =>
            /\ ~solved[i].r.ok
            /\ solved[i].r.msg = "cv2.solvePnP failed to converge."
            /\ i <= Len(results)
            /\ results[i].key = solved[i].cam_id
            /\ results[i].value = [error |-> "cv2.solvePnP failed to converge."]
    /\ Written => KeySet(structured_data) = { solved[i].cam_id : i \in 1..Len(solved) }

\* A written output whose first camera did not converge and whose second
\* camera was solved after it.
C6_Witness ==
    /\ Written
    /\ Len(solved) = 2
    /\ ~solved[1].o.raised /\ ~solved[1].o.success
    /\ output_file.cameras[1].value = [error |-> "cv2.solvePnP failed to converge."]
    /\ solved[2].r.ok

\* ------------------------------------------------------------------ C7
\* C7: the cameras are solved in the key order of the observations' `cameras`
\* object with the dropped cameras removed, and the keys of the output occur in
\* that same order, whichever cameras fail and whatever the key order of the
\* intrinsics document (ascending ids here).
C7_ObservationOrderKept ==
    /\ IsPrefix([i \in 1..Len(solved) |-> solved[i].cam_id], ExpectedOrder)
    /\ pc \in {"solve", "dump"} =>
         /\ DictKeys(structured_data) = ExpectedOrder
         /\ IsPrefix(DictKeys(results), ExpectedOrder)
    /\ Written =>
         /\ [i \in 1..Len(solved) |-> solved[i].cam_id] = ExpectedOrder
         /\ DictKeys(output_file.cameras) = ExpectedOrder

\* A written output of two cameras listed by the observations in descending
\* id order, the first of which failed.
C7_Witness ==
    /\ Written
    /\ DictKeys(obs_cameras) = <<2, 1>>
    /\ DictKeys(output_file.cameras) = <<2, 1>>
    /\ ~solved[1].r.ok
    /\ solved[2].r.ok

\* ------------------------------------------------------------------ C8
\* C8: the loader is invoked exactly once, the solver at most once per loaded
\* camera and never for another camera, the output file is written at most
\* once, and it is opened or written only after the solver was invoked exactly
\* once for every loaded camera.
C8_OnceEach ==
    /\ load_calls <= 1
    /\ pc # "start" => load_calls = 1
    /\ writes <= 1
    /\ Written <=> writes = 1
    /\ \A i, j \in 1..Len(solved) : solved[i].cam_id = solved[j].cam_id => i = j
    /\ \A i \in 1..Len(solved) :
         pc \in {"solve", "dump", "done"} /\ solved[i].cam_id \in KeySet(structured_data)
    /\ (pc = "dump" \/ output_file.state \in {"empty", "doc"}) =>
         /\ Len(solved) = Len(structured_data)
         /\ { solved[i].cam_id : i \in 1..Len(solved) } = KeySet(structured_data)

\* A finished run that loaded once, solved two cameras once each, one of them
\* failing, and wrote once.
C8_Witness ==
    /\ pc = "done"
    /\ load_calls = 1
    /\ writes = 1
    /\ Len(solved) = 2
    /\ \E i \in 1..2 : ~solved[i].r.ok

\* ------------------------------------------------------------------ C9
\* C9: when the loader returns an empty mapping from two valid JSON documents,
\* main() ends without invoking the solver and without writing the output file.
C9_EmptyLoadWritesNothing ==
    ( /\ FilesReadable(intrinsics_file, observations_file)
      /\ pc \in {"check", "solve", "dump", "done"}
      /\ structured_data = << >> ) =>
        /\ pc \in {"check", "done"}
        /\ solved = << >>
        /\ writes = 0
        /\ output_file \in {NoFile, OldFile}

\* A finished run over two valid documents whose two observed cameras were
\* both dropped, one for missing intrinsics and one for unequal point counts.
C9_Witness ==
    /\ pc = "done"
    /\ FilesReadable(intrinsics_file, observations_file)
    /\ Len(obs_cameras) = 2
    /\ \E c \in CamIds : c \in KeySet(obs_cameras) /\ c \notin DOMAIN intrinsics_data
    /\ \E c \in CamIds : InBothDocuments(c) /\ ~SameCount(c)
    /\ structured_data = << >>
    /\ output_file.state \in {"absent", "old"}

\* ----------------------------------------------------------------- C10
\* C10: a step changes the output file only when the solver has been invoked
\* for every loaded camera and at least one camera was loaded, so every early
\* exit leaves a previous file as it was; and a document in the file holds an
\* entry for every loaded camera.
C10_FileUntouchedUntilAllSolved ==
    [][ /\ output_file' # output_file =>
             /\ structured_data # << >>
             /\ Len(solved) = Len(structured_data)
             /\ pc \in {"solve", "dump"}
        /\ output_file'.state = "doc" =>
             KeySet(output_file'.cameras) = KeySet(structured_data')
      ]_vars

\* A run over two readable documents that exited early and left the previous
\* run's output file in place.
C10_Witness ==
    /\ pc = "done"
    /\ FilesReadable(intrinsics_file, observations_file)
    /\ obs_cameras # << >>
    /\ structured_data = << >>
    /\ output_file = OldFile
====
